---- MODULE Spec2Model ----
(***************************************************************************)
(* A model of the resume doctor: app.py (the Streamlit script and its      *)
(* degradation wrappers), ai_advisor.py (the two backend operations) and   *)
(* resume_parser.py (the page-streaming extractor).                        *)
(*                                                                         *)
(* Text is a sequence of one-character strings.  The PDF decoder and the   *)
(* LLM backend are external: what they return is drawn from small sets.    *)
(* One action is one run of the script main(), triggered by one widget     *)
(* event.                                                                  *)
(***************************************************************************)
EXTENDS Integers, Sequences, FiniteSets, TLC

VARIABLES
    uploaded_file,       \* the file_uploader widget: NoFile or a RawDocument
    resume_text,         \* st.session_state.resume_text
    analysis_result,     \* st.session_state.analysis_result: PyNone or a dict
    optimized_markdown,  \* st.session_state.optimized_markdown
    has_key,             \* DEEPSEEK_API_KEY was found when the process started
    advisor_import,      \* "ok" / "fail": what importing ai_advisor does
    outcome,             \* how the last run of main() ended
    view,                \* what the last run of main() rendered
    backend_calls,       \* calls to client.chat.completions.create in the last run
    tmp_file,            \* the temporary file the last run wrote (NoFile if none)
    diagnosed,           \* history: input and output of the last _ai_analyze call
    generated            \* history: output of the last _ai_generate_resume_markdown call

vars == <<uploaded_file, resume_text, analysis_result, optimized_markdown,
          has_key, advisor_import, outcome, view,
          backend_calls, tmp_file, diagnosed, generated>>

-----------------------------------------------------------------------------
(* Bounds *)

\* the longest document, in pages
MaxPages == 2

-----------------------------------------------------------------------------
(* Text *)

NL == "\n"

\* the characters str.strip() removes
Whitespace == {" ", NL}

RECURSIVE lstrip(_)
lstrip(s) == IF s # <<>> /\ Head(s) \in Whitespace THEN lstrip(Tail(s)) ELSE s

RECURSIVE rstrip(_)
rstrip(s) ==
    IF s # <<>> /\ s[Len(s)] \in Whitespace
        THEN rstrip(SubSeq(s, 1, Len(s) - 1))
        ELSE s

\* str.strip()
strip(s) == rstrip(lstrip(s))

\* s[:n]
Take(s, n) == SubSeq(s, 1, IF Len(s) < n THEN Len(s) ELSE n)

-----------------------------------------------------------------------------
(* Python values *)

PyNone == [t |-> "none"]
NoFile == [t |-> "nofile"]

\* an exception carrying str(e)
Raised(msg) == [raised |-> TRUE, msg |-> msg]
Returned(v) == [raised |-> FALSE, value |-> v]

\* what str(e) can be; an exception may carry no message
FaultMsgs == {<<>>, <<"e">>}

-----------------------------------------------------------------------------
(* Text Extractor *)

\* What page.extract_text() yields for page i when the page has text: each
\* page has a text of its own, so that the order of the pages shows.
PageText(i) == [j \in 1..i |-> "a"]

\* a document's pages: each is without text (<<>>) or has its text
PageSeqs ==
    UNION {[1..k -> {<<>>} \cup {PageText(i) : i \in 1..k}] : k \in 0..MaxPages}

\* the bytes of a PDF: the decoder either reads its pages or faults on it
PdfBytes ==
    {[readable |-> TRUE, pages |-> p] :
        p \in {q \in PageSeqs : \A i \in 1..Len(q) : q[i] \in {<<>>, PageText(i)}}}
        \cup {[readable |-> FALSE, pages |-> <<>>]}

\* an UploadedFile
RawDocuments == {[t |-> "file", bytes |-> b] : b \in PdfBytes}

\* the loop over reader.pages
RECURSIVE JoinPages(_)
JoinPages(pages) ==
    IF pages = <<>>
        THEN <<>>
        ELSE (IF Head(pages) # <<>> THEN Head(pages) \o <<NL>> ELSE <<>>)
                 \o JoinPages(Tail(pages))

\* resume_parser.extract_text_from_pdf and the built-in pypdf loop of app.py,
\* on a source the decoder accepts (accepted) holding the given bytes
extract_text_from_pdf(bytes, accepted) ==
    IF accepted /\ bytes.readable
        THEN Returned(JoinPages(bytes.pages))
        ELSE Raised(<<"e">>)

\* WriteTemp gone wrong: only the first page reaches the temporary file
WriteTemp_truncated(doc) == [doc.bytes EXCEPT !.pages = Take(@, 1)]

\* NamedTemporaryFile(delete=False) + write(getvalue()): the bytes written
WriteTemp(doc) == doc.bytes

\* _extract_text_from_pdf gone wrong: a fault of the second attempt is
\* swallowed and the empty string returned
_extract_text_from_pdf_swallow(doc, stream_ok) ==
    LET first == extract_text_from_pdf(doc.bytes, stream_ok) IN
    IF ~first.raised
        THEN [result |-> first, tmp |-> NoFile]
        ELSE LET second == extract_text_from_pdf(doc.bytes, TRUE) IN
             [result |-> IF second.raised THEN Returned(<<>>) ELSE second,
              tmp |-> [t |-> "file", bytes |-> doc.bytes]]

\* app._extract_text_from_pdf.  stream_ok: the decoder accepts the in-memory
\* upload.  Both branches (the project's parser, the built-in loop) run the
\* same two attempts; the second is outside any try.
_extract_text_from_pdf(doc, stream_ok) ==
    LET first == extract_text_from_pdf(doc.bytes, stream_ok) IN
    IF ~first.raised
        THEN [result |-> first, tmp |-> NoFile]
        ELSE LET tmp == WriteTemp(doc) IN
             [result |-> extract_text_from_pdf(tmp, TRUE),
              tmp |-> [t |-> "file", bytes |-> tmp]]

-----------------------------------------------------------------------------
(* JSON values, as json.loads builds them *)

JInt(n) == [t |-> "int", n |-> n]
JStr(s) == [t |-> "str", s |-> s]
JList(l) == [t |-> "list", l |-> l]
\* d is a function from the keys present to their values
JDict(d) == [t |-> "dict", d |-> d]

EmptyDict == JDict([key \in {} |-> PyNone])

\* isinstance(v, dict), isinstance(v, list)
IsDict(v) == v.t = "dict"
IsList(v) == v.t = "list"

\* v.get(key, default) on a dict
Get(v, key, default) == IF key \in DOMAIN v.d THEN v.d[key] ELSE default

\* Python truthiness of the values the script tests
Truthy(v) ==
    CASE v.t = "none" -> FALSE
      [] v.t = "dict" -> DOMAIN v.d # {}
      [] v.t = "list" -> v.l # <<>>
      [] v.t = "str" -> v.s # <<>>
      [] v.t = "int" -> v.n # 0

\* an {advice, evidence} entry of "suggestions"
Suggestion(advice, evidence) ==
    JDict([advice |-> JStr(advice), evidence |-> JStr(evidence)])

-----------------------------------------------------------------------------
(* The LLM backend, seen from ai_advisor.py *)

\* a complete reply with every field of the requested format
FullReport ==
    JDict([score |-> JInt(85),
           score_rationale |-> JStr(<<"r">>),
           summary |-> JStr(<<"s">>),
           pros |-> JList(<<JStr(<<"p">>)>>),
           cons |-> JList(<<JStr(<<"c">>)>>),
           suggestions |-> JList(<<Suggestion(<<"x">>, <<"y">>)>>),
           matched_jobs |-> JList(<<JStr(<<"j">>)>>)])

\* an object without score, summary, suggestions and matched_jobs
SparseReport == JDict([pros |-> JList(<<>>)])

\* an object that ignores the requested format
OffFormatReport ==
    JDict([score |-> JInt(150),
           summary |-> JStr(<<"s">>),
           suggestions |-> JList(<<JStr(<<"x">>), Suggestion(<<"x">>, <<"y">>)>>)])

\* the JSON documents a completion may hold; the last is valid JSON, not an object
JsonDocuments == {FullReport, EmptyDict, SparseReport, OffFormatReport, JList(<<>>)}

\* A completion text is a sequence of pieces: the two code-fence markers,
\* whitespace, the text of one JSON document, or text that is not JSON.
FenceJson == [k |-> "fence_json"]
Fence == [k |-> "fence"]
Blank == [k |-> "ws"]
Junk == [k |-> "junk"]
Doc(v) == [k |-> "json", v |-> v]

\* message.content of a diagnosis completion (PyNone: no content)
DiagnosisContents ==
    {PyNone, JStr(<<Junk>>), JStr(<<Doc(FullReport), Junk>>),
     JStr(<<FenceJson, Blank, Doc(FullReport), Blank, Fence>>)}
        \cup {JStr(<<Doc(v)>>) : v \in JsonDocuments}

\* message.content of a generation completion
MarkdownContents ==
    {PyNone, JStr(<<>>), JStr(<<" ", NL>>), JStr(<<NL, "#", " ", "m", " ", NL>>)}

Reply(content) == [kind |-> "reply", content |-> content]
Fault(msg) == [kind |-> "fault", msg |-> msg]

\* what client.chat.completions.create can do.  Without a key every call is
\* refused.
BackendOutcomes(key, contents) ==
    {Fault(m) : m \in FaultMsgs}
        \cup (IF key THEN {Reply(c) : c \in contents} ELSE {})

\* What one run meets: stdout takes the module's progress lines and the
\* backend answers, or stdout refuses them (then no call is reached).
Environments(key, contents) ==
    {[stdout_ok |-> TRUE, backend |-> b] : b \in BackendOutcomes(key, contents)}
        \cup {[stdout_ok |-> FALSE, backend |-> Fault(<<>>)]}

\* the exception print() raises when stdout cannot take the text
StdoutFault == Raised(<<"o">>)

\* ai_advisor.clean_ai_response
clean_ai_response(raw_response) ==
    IF ~Truthy(raw_response)
        THEN <<>>
        ELSE LET unfenced == SelectSeq(raw_response.s,
                                       LAMBDA p : p # FenceJson /\ p # Fence)
                 IsBlank(p) == p = Blank
                 first == CHOOSE i \in 1..(Len(unfenced) + 1) :
                             /\ \A j \in 1..(i - 1) : IsBlank(unfenced[j])
                             /\ i <= Len(unfenced) => ~IsBlank(unfenced[i])
                 last == CHOOSE i \in 0..Len(unfenced) :
                             /\ \A j \in (i + 1)..Len(unfenced) : IsBlank(unfenced[j])
                             /\ i >= 1 => ~IsBlank(unfenced[i])
             IN  SubSeq(unfenced, first, last)

\* json.loads: exactly one JSON document, else it raises
json_loads(text) ==
    IF Len(text) = 1 /\ text[1].k = "json"
        THEN Returned(text[1].v)
        ELSE Raised(<<"j">>)

\* analyze_resume gone wrong: a failed call is issued a second time
analyze_resume_retry(resume, stdout_ok, backend) ==
    IF ~stdout_ok
        THEN [result |-> StdoutFault, calls |-> 0]
        ELSE IF backend.kind = "fault"
            THEN [result |-> Returned(PyNone), calls |-> 2]
            ELSE LET parsed == json_loads(clean_ai_response(backend.content)) IN
                 [result |-> IF parsed.raised THEN Returned(PyNone) ELSE parsed,
                  calls |-> 1]

\* ai_advisor.analyze_resume: result, and the backend calls it made
analyze_resume(resume, stdout_ok, backend) ==
    IF ~stdout_ok
        THEN [result |-> StdoutFault, calls |-> 0]
        ELSE IF backend.kind = "fault"
            THEN [result |-> Returned(PyNone), calls |-> 1]
            ELSE LET parsed == json_loads(clean_ai_response(backend.content)) IN
                 [result |-> IF parsed.raised THEN Returned(PyNone) ELSE parsed,
                  calls |-> 1]

\* None.strip(): the exception of a completion without content
AttributeFault == Raised(<<"e">>)

\* the text generate_resume_markdown returns from its except branch
ServiceUnavailable(msg) == <<"A", ":", " ">> \o msg

\* ai_advisor.generate_resume_markdown
generate_resume_markdown(prompt, stdout_ok, backend) ==
    IF ~stdout_ok
        THEN [result |-> StdoutFault, calls |-> 0]
        ELSE IF backend.kind = "fault"
            THEN [result |-> Returned(ServiceUnavailable(backend.msg)), calls |-> 1]
            ELSE IF backend.content = PyNone
                THEN [result |-> Returned(ServiceUnavailable(AttributeFault.msg)),
                      calls |-> 1]
                ELSE [result |-> Returned(strip(backend.content.s)), calls |-> 1]

-----------------------------------------------------------------------------
(* app.py: the degradation wrappers *)

\* the result _ai_analyze returns from its except branch
DegradedReport(msg) ==
    JDict([score |-> JInt(0),
           summary |-> JStr(<<"u">>),
           error |-> JStr(msg),
           suggestions |-> JList(<<Suggestion(<<"k">>, <<"v">>),
                                   Suggestion(<<"l">>, <<"w">>)>>),
           matched_jobs |-> JList(<<>>)])

\* the mock result _ai_analyze ends with
MockReport ==
    JDict([score |-> JInt(82),
           score_rationale |-> JStr(<<"r">>),
           summary |-> JStr(<<"d">>),
           suggestions |-> JList(<<Suggestion(<<"q">>, <<"v">>),
                                   Suggestion(<<"g">>, <<"w">>)>>),
           matched_jobs |-> JList(<<JStr(<<"b">>), JStr(<<"f">>), JStr(<<"d">>)>>)])

\* _ai_analyze gone wrong: no try around the call
_ai_analyze_unguarded(advisor_ok, resume, stdout_ok, backend) ==
    IF advisor_ok
        THEN LET r == analyze_resume(resume, stdout_ok, backend) IN
             IF r.result.raised \/ IsDict(r.result.value)
                 THEN r
                 ELSE [result |-> Returned(MockReport), calls |-> r.calls]
        ELSE [result |-> Returned(MockReport), calls |-> 0]

\* app._ai_analyze: result, and the backend calls made
_ai_analyze(advisor_ok, resume, stdout_ok, backend) ==
    IF advisor_ok
        THEN LET r == analyze_resume(resume, stdout_ok, backend) IN
             IF r.result.raised
                 THEN [result |-> Returned(DegradedReport(r.result.msg)),
                       calls |-> r.calls]
                 ELSE IF IsDict(r.result.value)
                     THEN r
                     ELSE [result |-> Returned(MockReport), calls |-> r.calls]
        ELSE [result |-> Returned(MockReport), calls |-> 0]

\* the document _ai_generate_resume_markdown returns from its except branch:
\* a heading, the message, a closing line
GenerationFailed(msg) == <<"#", " ", "f", NL>> \o msg \o <<NL, "c">>

\* the demo document _ai_generate_resume_markdown ends with: the literal
\* begins with "#" and ends with a newline
DemoMarkdown == <<"#", " ", "d", NL>>

\* app._ai_generate_resume_markdown: result, and the backend calls made
_ai_generate_resume_markdown(advisor_ok, prompt, stdout_ok, backend) ==
    IF advisor_ok
        THEN LET r == generate_resume_markdown(prompt, stdout_ok, backend) IN
             IF r.result.raised
                 THEN [result |-> Returned(GenerationFailed(r.result.msg)),
                       calls |-> r.calls]
                 ELSE IF strip(r.result.value) # <<>>
                     THEN [result |-> Returned(strip(r.result.value)),
                           calls |-> r.calls]
                     ELSE [result |-> Returned(DemoMarkdown), calls |-> r.calls]
        ELSE [result |-> Returned(DemoMarkdown), calls |-> 0]

-----------------------------------------------------------------------------
(* app.py: the report *)

\* the placeholders of the report
NoSummary == JStr(<<"-">>)
NoAdvice == JStr(<<"?">>)
NoEvidence == JStr(<<"!">>)
Notice == [t |-> "notice"]

\* one entry of the suggestions section
RenderSuggestion(item) ==
    IF IsDict(item)
        THEN [t |-> "expander",
              advice |-> Get(item, "advice", NoAdvice),
              evidence |-> Get(item, "evidence", NoEvidence)]
        ELSE [t |-> "line", item |-> item]

\* the suggestions section: its entries, or the notice that there is no data
RenderSuggestions(v) ==
    IF IsList(v) /\ Truthy(v)
        THEN [t |-> "entries",
              l |-> [i \in 1..Len(v.l) |-> RenderSuggestion(v.l[i])]]
        ELSE Notice

\* the jobs section: the jobs on one line, or the notice that there is no data
RenderJobs(v) ==
    IF IsList(v) /\ Truthy(v)
        THEN [t |-> "entries", l |-> v.l]
        ELSE Notice

\* main() from the test of analysis_result to the end
Render(result, markdown) ==
    IF ~Truthy(result)
        THEN [stage |-> "no_report"]
        ELSE [stage |-> "report",
              raw |-> result,
              score |-> Get(result, "score", JInt(0)),
              summary |-> Get(result, "summary", NoSummary),
              rationale |-> Get(result, "score_rationale", PyNone),
              suggestions |-> RenderSuggestions(Get(result, "suggestions", JList(<<>>))),
              jobs |-> RenderJobs(Get(result, "matched_jobs", JList(<<>>))),
              preview |-> markdown]

-----------------------------------------------------------------------------
(* app.py: session state and the two buttons *)

\* the characters of the resume the generation prompt quotes
PromptBudget == 2000

\* _init_state
InitialSession ==
    [resume_text |-> <<>>, analysis_result |-> PyNone, optimized_markdown |-> <<>>]

Session ==
    [resume_text |-> resume_text,
     analysis_result |-> analysis_result,
     optimized_markdown |-> optimized_markdown]

\* st.session_state.resume_text = resume_text
StoreText(session, text) == [session EXCEPT !.resume_text = text]

\* StoreResult gone wrong: a new diagnosis drops the generated markdown
StoreResult_resets(session, result) ==
    [session EXCEPT !.analysis_result = result, !.optimized_markdown = <<>>]

\* st.session_state.analysis_result = result
StoreResult(session, result) == [session EXCEPT !.analysis_result = result]

\* st.session_state.optimized_markdown = optimized_content
StoreMarkdown(session, markdown) == [session EXCEPT !.optimized_markdown = markdown]

\* ExtractionFailed gone wrong: the failure is stored as an empty text
ExtractionFailed_clears(session) == [session EXCEPT !.resume_text = <<>>]

\* the except branch around the extraction: st.error, st.exception, st.stop
ExtractionFailed(session) == session

\* The diagnose button.  An exception that leaves a wrapper leaves main():
\* the run ends "unhandled" with what was stored before it.
DiagnoseButton(session, doc, advisor_ok, stream_ok, stdout_ok, backend) ==
    LET ex == _extract_text_from_pdf(doc, stream_ok) IN
    IF ex.result.raised
        THEN [session |-> ExtractionFailed(session), outcome |-> "extract_error",
              calls |-> 0, tmp |-> ex.tmp, diagnosed |-> PyNone]
        ELSE LET s1 == StoreText(session, ex.result.value)
                 an == _ai_analyze(advisor_ok, s1.resume_text, stdout_ok, backend)
             IN  IF an.result.raised
                     THEN [session |-> s1, outcome |-> "unhandled",
                           calls |-> an.calls, tmp |-> ex.tmp, diagnosed |-> PyNone]
                     ELSE [session |-> StoreResult(s1, an.result.value),
                           outcome |-> "diagnosed",
                           calls |-> an.calls, tmp |-> ex.tmp,
                           diagnosed |-> [t |-> "call",
                                          text |-> s1.resume_text,
                                          result |-> an.result.value]]

\* the prompt of the generate button
Prompt(session) ==
    [resume |-> Take(session.resume_text, PromptBudget),
     suggestions |-> Get(session.analysis_result, "suggestions", JList(<<>>))]

\* The generate button
GenerateButton(session, advisor_ok, stdout_ok, backend) ==
    LET g == _ai_generate_resume_markdown(advisor_ok, Prompt(session),
                                          stdout_ok, backend)
    IN  IF g.result.raised
            THEN [session |-> session, outcome |-> "unhandled", calls |-> g.calls]
            ELSE [session |-> StoreMarkdown(session, g.result.value),
                  outcome |-> "generated", calls |-> g.calls]

-----------------------------------------------------------------------------
(* The state machine: one action is one run of main() *)

\* app._safe_import_ai_advisor: the module, or the exception as a value
_safe_import_ai_advisor(import) == import = "ok"

\* what main() shows for the session it ends with
Shown(out, session) ==
    CASE out = "extract_error" -> [stage |-> "extract_error"]
      [] out = "unhandled" -> [stage |-> "traceback"]
      [] OTHER -> Render(session.analysis_result, session.optimized_markdown)

Init ==
    /\ uploaded_file = NoFile
    /\ resume_text = InitialSession.resume_text
    /\ analysis_result = InitialSession.analysis_result
    /\ optimized_markdown = InitialSession.optimized_markdown
    /\ has_key \in BOOLEAN
    /\ advisor_import \in {"ok", "fail"}
    /\ outcome = "idle"
    /\ view = [stage |-> "upload_prompt"]
    /\ backend_calls = 0
    /\ tmp_file = NoFile
    /\ diagnosed = PyNone
    /\ generated = <<>>

\* the user picks a file: the script runs with no button pressed
Upload(doc) ==
    /\ doc # uploaded_file
    /\ uploaded_file' = doc
    /\ outcome' = "idle"
    /\ view' = Shown("idle", Session)
    /\ backend_calls' = 0
    /\ tmp_file' = NoFile
    /\ UNCHANGED <<resume_text, analysis_result, optimized_markdown,
                   has_key, advisor_import, diagnosed, generated>>

\* the user removes the file: the script stops at the upload prompt
RemoveFile ==
    /\ uploaded_file # NoFile
    /\ uploaded_file' = NoFile
    /\ outcome' = "idle"
    /\ view' = [stage |-> "upload_prompt"]
    /\ backend_calls' = 0
    /\ tmp_file' = NoFile
    /\ UNCHANGED <<resume_text, analysis_result, optimized_markdown,
                   has_key, advisor_import, diagnosed, generated>>

\* the user presses the diagnose button, shown whenever a file is uploaded
ClickDiagnose(stream_ok, stdout_ok, backend) ==
    /\ uploaded_file # NoFile
    /\ LET run == DiagnoseButton(Session, uploaded_file,
                                 _safe_import_ai_advisor(advisor_import),
                                 stream_ok, stdout_ok, backend)
       IN  /\ resume_text' = run.session.resume_text
           /\ analysis_result' = run.session.analysis_result
           /\ optimized_markdown' = run.session.optimized_markdown
           /\ outcome' = run.outcome
           /\ view' = Shown(run.outcome, run.session)
           /\ backend_calls' = run.calls
           /\ tmp_file' = run.tmp
           /\ diagnosed' = IF run.diagnosed = PyNone THEN diagnosed ELSE run.diagnosed
    /\ UNCHANGED <<uploaded_file, has_key, advisor_import, generated>>

\* the user presses the generate button, shown below a rendered report
ClickGenerate(stdout_ok, backend) ==
    /\ uploaded_file # NoFile
    /\ view.stage = "report"
    /\ LET run == GenerateButton(Session, _safe_import_ai_advisor(advisor_import),
                                 stdout_ok, backend)
       IN  /\ resume_text' = run.session.resume_text
           /\ analysis_result' = run.session.analysis_result
           /\ optimized_markdown' = run.session.optimized_markdown
           /\ outcome' = run.outcome
           /\ view' = Shown(run.outcome, run.session)
           /\ backend_calls' = run.calls
           /\ generated' = IF run.outcome = "generated"
                               THEN run.session.optimized_markdown
                               ELSE generated
    /\ tmp_file' = NoFile
    /\ UNCHANGED <<uploaded_file, has_key, advisor_import, diagnosed>>

Next ==
    \/ \E doc \in RawDocuments : Upload(doc)
    \/ RemoveFile
    \/ \E stream_ok \in BOOLEAN :
           \E env \in Environments(has_key, DiagnosisContents) :
               ClickDiagnose(stream_ok, env.stdout_ok, env.backend)
    \/ \E env \in Environments(has_key, MarkdownContents) :
           ClickGenerate(env.stdout_ok, env.backend)

Spec == Init /\ [][Next]_vars

-----------------------------------------------------------------------------
(* Claims *)

\* what every step of ClickDiagnose shows: the file stays, and the run is
\* neither a plain rerun nor a generate run
DiagnoseStep ==
    /\ uploaded_file # NoFile
    /\ uploaded_file' = uploaded_file
    /\ outcome' \notin {"idle", "generated"}

\* what every step of ClickGenerate shows
GenerateStep ==
    /\ view.stage = "report"
    /\ uploaded_file' = uploaded_file
    /\ outcome' \notin {"idle", "diagnosed", "extract_error"}

\* the step is a diagnose run in which the in-memory attempt behaved as given
DiagnoseRun(stream_ok) ==
    \E env \in Environments(has_key, DiagnosisContents) :
        ClickDiagnose(stream_ok, env.stdout_ok, env.backend)

\* the backend call raises, or its reply does not parse as JSON
BackendFails(backend) ==
    \/ backend.kind = "fault"
    \/ json_loads(clean_ai_response(backend.content)).raised

\* the backend replies with a JSON object
BackendSendsObject(backend) ==
    /\ ~BackendFails(backend)
    /\ IsDict(json_loads(clean_ai_response(backend.content)).value)

\* the step is a diagnose run that called the backend, which failed
FailedCall ==
    \E stream_ok \in BOOLEAN :
        \E backend \in BackendOutcomes(has_key, DiagnosisContents) :
            /\ BackendFails(backend)
            /\ ClickDiagnose(stream_ok, TRUE, backend)
            /\ backend_calls' = 1

\* the step is a diagnose run that called the backend, which sent an object
AnsweredCall ==
    \E stream_ok \in BOOLEAN :
        \E backend \in BackendOutcomes(has_key, DiagnosisContents) :
            /\ BackendSendsObject(backend)
            /\ ClickDiagnose(stream_ok, TRUE, backend)
            /\ backend_calls' = 1

\* a degraded DiagnosisResult: score 0, a summary, a non-empty error
IsDegraded(result) ==
    /\ IsDict(result)
    /\ Get(result, "score", PyNone) = JInt(0)
    /\ Truthy(Get(result, "summary", PyNone))
    /\ Truthy(Get(result, "error", PyNone))

\* C1: whenever a diagnose run reaches the backend and the call raises or the
\* reply fails to parse, the run ends normally and the stored result is a
\* degraded one (score 0, a summary, a non-empty error).
C1_DegradedOnBackendFailure ==
    [][(DiagnoseStep /\ FailedCall)
          => (outcome' = "diagnosed" /\ IsDegraded(analysis_result'))]_vars

\* C2: the document a generate run returns and stores has no leading and no
\* trailing whitespace, whatever the backend did.
C2_GeneratedIsTrimmed == strip(generated) = generated

\* the report shows the documented default for every field the result lacks
DefaultsShown(result, report) ==
    /\ "score" \notin DOMAIN result.d => report.score = JInt(0)
    /\ "summary" \notin DOMAIN result.d => report.summary = NoSummary
    /\ "suggestions" \notin DOMAIN result.d => report.suggestions = Notice
    /\ "matched_jobs" \notin DOMAIN result.d => report.jobs = Notice

\* C3: after every diagnose run that stored a result, the empty object
\* included, the report is rendered and shows the defaults (score 0, the
\* placeholder summary, the no-data notices) for the fields the result lacks.
C3_ReportIsTotal ==
    outcome = "diagnosed" =>
        /\ view.stage = "report"
        /\ DefaultsShown(analysis_result, view)

\* C4 as claimed: for every uploaded document and either behaviour of the
\* in-memory attempt, _extract_text_from_pdf returns a string and raises
\* nothing to its caller.
C4_ExtractNeverRaises ==
    uploaded_file # NoFile =>
        \A stream_ok \in BOOLEAN :
            ~_extract_text_from_pdf(uploaded_file, stream_ok).result.raised

\* C4 as amended: _extract_text_from_pdf returns a string whenever the
\* decoder can read the bytes; when both attempts fault, the fault of the
\* second attempt reaches main(), whose handler shows the extraction error and
\* stops the run: nothing is stored, the advisory client is not called, and
\* the run does not end in an unhandled fault.
C4_FaultStopsAtMain ==
    [][DiagnoseStep =>
         \A stream_ok \in BOOLEAN :
             DiagnoseRun(stream_ok) =>
                 LET ex == _extract_text_from_pdf(uploaded_file, stream_ok) IN
                 IF uploaded_file.bytes.readable
                     THEN /\ ~ex.result.raised
                          /\ resume_text' = ex.result.value
                          /\ outcome' = "diagnosed"
                     ELSE /\ ex.result.raised
                          /\ outcome' = "extract_error"
                          /\ view'.stage = "extract_error"
                          /\ backend_calls' = 0
                          /\ UNCHANGED <<resume_text, analysis_result,
                                         optimized_markdown, diagnosed>>]_vars

\* a run in which both attempts faulted and main() showed the error
C4_Witness == outcome = "extract_error" /\ tmp_file = uploaded_file

\* the lines of a text in which every line ends with a newline
RECURSIVE Lines(_)
Lines(s) ==
    IF s = <<>>
        THEN <<>>
        ELSE LET n == CHOOSE i \in 1..Len(s) :
                          s[i] = NL /\ \A j \in 1..(i - 1) : s[j] # NL
             IN  <<SubSeq(s, 1, n - 1)>> \o Lines(SubSeq(s, n + 1, Len(s)))

\* text is the page texts in page order, each followed by a newline, the
\* pages without text left out
PagesInOrder(text, pages) ==
    /\ text # <<>> => text[Len(text)] = NL
    /\ Lines(text) = SelectSeq(pages, LAMBDA p : p # <<>>)

\* C5: in every diagnose run whose in-memory attempt faults, the temporary
\* file holds the bytes of the upload and the run ends as a decode of those
\* bytes from a path ends: with the same fault, or storing the same text, the
\* page texts in page order, each followed by a newline, empty pages left out.
C5_FallbackEqualsPathDecode ==
    [][DiagnoseStep =>
         \A stream_ok \in BOOLEAN :
             (/\ extract_text_from_pdf(uploaded_file.bytes, stream_ok).raised
              /\ DiagnoseRun(stream_ok))
                 => /\ tmp_file' = uploaded_file
                    /\ IF uploaded_file.bytes.readable
                           THEN /\ outcome' = "diagnosed"
                                /\ PagesInOrder(resume_text',
                                                uploaded_file.bytes.pages)
                           ELSE outcome' = "extract_error"]_vars

\* the fallback produced the text of a two-page document
C5_Witness ==
    /\ outcome = "diagnosed"
    /\ tmp_file = uploaded_file
    /\ resume_text = <<"a", NL, "a", "a", NL>>

\* score is an integer in [0,100] and every suggestion is an
\* {advice, evidence} pair
WellFormed(result) ==
    /\ IsDict(result)
    /\ "score" \in DOMAIN result.d
    /\ result.d.score.t = "int"
    /\ result.d.score.n \in 0..100
    /\ "suggestions" \in DOMAIN result.d
    /\ IsList(result.d.suggestions)
    /\ \A i \in 1..Len(result.d.suggestions.l) :
           LET item == result.d.suggestions.l[i] IN
           IsDict(item) /\ DOMAIN item.d = {"advice", "evidence"}

\* C6: whenever the backend replies with a parseable JSON object, the stored
\* diagnosis has an integer score in [0,100] and suggestions that are all
\* {advice, evidence} pairs.
C6_SuccessIsWellFormed ==
    [][(DiagnoseStep /\ AnsweredCall)
          => WellFormed(analysis_result')]_vars

\* C7: without a credential the session starts, no run ends in an unhandled
\* fault, a diagnose run that reaches the advisory client stores a report
\* that is rendered, and a generate run stores a non-empty document.
C7_NoKeyNeverAborts ==
    ~has_key =>
        /\ outcome \in {"idle", "extract_error", "diagnosed", "generated"}
        /\ view.stage # "traceback"
        /\ outcome = "diagnosed" => IsDict(analysis_result) /\ view.stage = "report"
        /\ outcome = "generated" => optimized_markdown # <<>> /\ view.stage = "report"

\* without a credential, a generate run whose backend call was refused
C7_Witness ==
    /\ ~has_key
    /\ outcome = "generated"
    /\ backend_calls = 1
    /\ diagnosed # PyNone

\* the results _ai_analyze makes up itself
Fallbacks == {MockReport, DegradedReport(StdoutFault.msg)}

\* the step is a generate run whose backend call raised with the message
GenerateFault(msg) ==
    /\ _safe_import_ai_advisor(advisor_import)
    /\ ClickGenerate(TRUE, Fault(msg))

\* C8: a run calls the backend at most once, and a run whose one call fails
\* ends at once with the fallback of its operation.
C8_NoRetries ==
    [][/\ backend_calls' <= 1
       /\ (DiagnoseStep /\ FailedCall)
              => outcome' = "diagnosed" /\ analysis_result' \in Fallbacks
       /\ GenerateStep =>
              \A msg \in FaultMsgs :
                  GenerateFault(msg) =>
                      /\ backend_calls' = 1
                      /\ outcome' = "generated"
                      /\ optimized_markdown' = strip(ServiceUnavailable(msg))]_vars

\* a run whose single backend call failed
C8_Witness ==
    /\ ~has_key
    /\ advisor_import = "ok"
    /\ backend_calls = 1
    /\ outcome = "diagnosed"

\* the stored result, when there is one, is what the last _ai_analyze call
\* returned for the stored text
ResultMatchesText ==
    analysis_result # PyNone =>
        /\ diagnosed # PyNone
        /\ diagnosed.text = resume_text
        /\ diagnosed.result = analysis_result

\* _ai_analyze is not called in a diagnose run on the stored upload
NoAnalyzeCall(stream_ok) ==
    \A env \in Environments(has_key, DiagnosisContents) :
        DiagnoseButton(Session, uploaded_file,
                       _safe_import_ai_advisor(advisor_import),
                       stream_ok, env.stdout_ok, env.backend).diagnosed = PyNone

\* C9: the stored result is always the one diagnosed for the stored text; a
\* diagnose run that extracts stores text and result together, and one whose
\* extraction raises changes neither and does not call _ai_analyze.
C9_ResultBelongsToText ==
    /\ []ResultMatchesText
    /\ [][DiagnoseStep =>
            \A stream_ok \in BOOLEAN :
                DiagnoseRun(stream_ok) =>
                    LET ex == _extract_text_from_pdf(uploaded_file, stream_ok) IN
                    IF ex.result.raised
                        THEN /\ UNCHANGED <<resume_text, analysis_result, diagnosed>>
                             /\ NoAnalyzeCall(stream_ok)
                             /\ backend_calls' = 0
                        ELSE /\ resume_text' = ex.result.value
                             /\ diagnosed' # PyNone
                             /\ diagnosed'.text = resume_text'
                             /\ diagnosed'.result = analysis_result']_vars

\* an extraction that raised after an earlier diagnosis of another document
C9_Witness ==
    /\ outcome = "extract_error"
    /\ analysis_result # PyNone
    /\ resume_text # <<>>

\* C10: the stored markdown is always what the last generate run stored, and
\* no diagnose run changes it.
C10_DiagnoseKeepsMarkdown ==
    /\ [](optimized_markdown = generated)
    /\ [][(DiagnoseStep /\ \E stream_ok \in BOOLEAN : DiagnoseRun(stream_ok))
             => optimized_markdown' = optimized_markdown]_vars

\* a new diagnosis stored next to the markdown generated from an earlier one
C10_Witness ==
    /\ outcome = "diagnosed"
    /\ optimized_markdown # <<>>
    /\ analysis_result = FullReport
    /\ view.stage = "report"
    /\ view.preview = optimized_markdown

====
